---------------------------- MODULE Spec2Model ----------------------------
(***************************************************************************)
(* State-machine model of the EdgeVision native layer:                     *)
(*   - edgevision::EdgeProcessor (edge_processor.h / edge_processor.cpp)   *)
(*   - the JNI entry points of native-lib.cpp and the global processor     *)
(*     pointer g_edgeProcessor.                                            *)
(* Memory is modelled explicitly (mem: address -> bytes) so that buffer    *)
(* reuse, reallocation and aliasing are observable.                        *)
(***************************************************************************)
EXTENDS Integers, Sequences, FiniteSets, TLC

(* ------------------------------ bounds --------------------------------- *)
\* longest input frame the caller passes
MaxLen == 2
\* largest width / height the caller passes
MaxDim == 2
\* number of boundary calls in a run
MaxCalls == 2

(* ------------------------- program constants --------------------------- *)
NULL == 0
JNI_ABORT == 2
DefaultThreshold1 == 50
DefaultThreshold2 == 150
DefaultApertureSize == 3

\* pixel values that occur in frames (dark, bright)
Bytes == {0, 255}
\* <<width, height>> arguments: a zero width, a negative height, and the
\* row images and column images up to MaxDim pixels
Dimensions ==
    {<<0, 1>>, <<1, -1>>}
    \cup {<<w, 1>> : w \in 1..MaxDim} \cup {<<1, h>> : h \in 1..MaxDim}
\* <<threshold1, threshold2>> arguments of setCannyThresholds: negative
\* ones, and a low threshold above the high one
ThresholdPairs == {<<-1, -1>>, <<DefaultThreshold2, -1>>}

Frames == UNION {[1..n -> Bytes] : n \in 1..MaxLen}

Max(a, b) == IF a >= b THEN a ELSE b
Min(a, b) == IF a <= b THEN a ELSE b
Abs(a) == IF a >= 0 THEN a ELSE -a

(* ------------------------------ cv::Mat -------------------------------- *)
\* a default-constructed cv::Mat: no rows, no columns, no data
EmptyMat == [cols |-> 0, rows |-> 0, step |-> 0, data |-> NULL]

\* first free address of the allocator
FreshAddr(m) == CHOOSE a \in 1..(Cardinality(DOMAIN m) + 1) : a \notin DOMAIN m

\* m with address a holding bytes b
Store(m, a, b) == (a :> b) @@ m

\* the n values f[1] .. f[n] as a sequence
AsSeq(f, n) == SubSeq(f, 1, n)

\* m without address a
Free(m, a) == [x \in (DOMAIN m) \ {a} |-> m[x]]

\* a new block of height*width bytes at address a, its contents
\* indeterminate (fill), and the header that owns it
AllocateAt(m, a, height, width, fill) ==
    [mat |-> [cols |-> width, rows |-> height, step |-> width, data |-> a],
     mem |-> Store(m, a, AsSeq([i \in 1..(width * height) |-> fill], width * height)),
     realloc |-> TRUE]

Allocate(m, height, width, fill) == AllocateAt(m, FreshAddr(m), height, width, fill)

\* cv::Mat::create(rows, cols, CV_8UC1): a no-op when the header already has
\* that size and data; otherwise the old block is released and a new block of
\* exactly rows*cols bytes is allocated. Result: [mat, mem, realloc].
MatCreate(mat, m, height, width, fill) ==
    IF mat.data # NULL /\ mat.cols = width /\ mat.rows = height
    THEN [mat |-> mat, mem |-> m, realloc |-> FALSE]
    ELSE Allocate(IF mat.data # NULL THEN Free(m, mat.data) ELSE m,
                  height, width, fill)

\* a memcpy that stops one byte early
MemcpyShort(dst, src, n, junk) ==
    AsSeq([i \in 1..Len(dst) |->
              IF i < n THEN (IF i <= Len(src) THEN src[i] ELSE junk) ELSE dst[i]],
          Len(dst))

\* memcpy(dst, src, n): the first n bytes of dst are overwritten with src;
\* a read past the end of src yields an indeterminate byte (junk)
Memcpy(dst, src, n, junk) ==
    AsSeq([i \in 1..Len(dst) |->
              IF i <= n THEN (IF i <= Len(src) THEN src[i] ELSE junk) ELSE dst[i]],
          Len(dst))

(* ------------------- the image-processing library ---------------------- *)
\* pixel (x, y), 0-based, of a row-major width-w image
At(img, w, x, y) == img[y * w + x + 1]

\* BORDER_REFLECT_101 (the default border of cv::GaussianBlur)
Reflect101(i, n) ==
    IF n = 1 THEN 0
    ELSE LET p == 2 * (n - 1)
             j == i % p
         IN  IF j < n THEN j ELSE p - j

\* BORDER_REPLICATE (the border of the Sobel stage of cv::Canny)
Clamp(i, n) == Max(0, Min(n - 1, i))

\* 5-tap Gaussian kernel, sigma 1.5, 8-bit fixed point (sums to 256)
Kernel == <<31, 60, 74, 60, 31>>

BlurRow(img, w, x, y) ==
      Kernel[1] * At(img, w, Reflect101(x - 2, w), y)
    + Kernel[2] * At(img, w, Reflect101(x - 1, w), y)
    + Kernel[3] * At(img, w, Reflect101(x, w), y)
    + Kernel[4] * At(img, w, Reflect101(x + 1, w), y)
    + Kernel[5] * At(img, w, Reflect101(x + 2, w), y)

BlurPixel(img, w, h, x, y) ==
    (  Kernel[1] * BlurRow(img, w, x, Reflect101(y - 2, h))
     + Kernel[2] * BlurRow(img, w, x, Reflect101(y - 1, h))
     + Kernel[3] * BlurRow(img, w, x, Reflect101(y, h))
     + Kernel[4] * BlurRow(img, w, x, Reflect101(y + 1, h))
     + Kernel[5] * BlurRow(img, w, x, Reflect101(y + 2, h))
     + 32768) \div 65536

BlurImage(img, w, h) ==
    AsSeq([i \in 1..(w * h) |-> BlurPixel(img, w, h, (i - 1) % w, (i - 1) \div w)],
          w * h)

\* the images a frame can put into a width-w, height-h buffer
Images(w, h) == [1..(w * h) -> Bytes]

\* BlurImage tabulated once for those images
BlurTable ==
    [k \in UNION {{<<d[1], d[2], img>> : img \in Images(d[1], d[2])}
                  : d \in {d \in Dimensions : d[1] > 0 /\ d[2] > 0}}
        |-> BlurImage(k[3], k[1], k[2])] @@ <<>>

\* cv::GaussianBlur(src, dst, Size(5,5), 1.5): every pixel of the result is a
\* function of the source image alone
GaussianBlur(img, w, h) ==
    IF <<w, h, img>> \in DOMAIN BlurTable
    THEN BlurTable[<<w, h, img>>]
    ELSE BlurImage(img, w, h)

SobelX(img, w, h, x, y) ==
      (At(img, w, Clamp(x + 1, w), Clamp(y - 1, h)) - At(img, w, Clamp(x - 1, w), Clamp(y - 1, h)))
    + 2 * (At(img, w, Clamp(x + 1, w), y) - At(img, w, Clamp(x - 1, w), y))
    + (At(img, w, Clamp(x + 1, w), Clamp(y + 1, h)) - At(img, w, Clamp(x - 1, w), Clamp(y + 1, h)))

SobelY(img, w, h, x, y) ==
      (At(img, w, Clamp(x - 1, w), Clamp(y + 1, h)) - At(img, w, Clamp(x - 1, w), Clamp(y - 1, h)))
    + 2 * (At(img, w, x, Clamp(y + 1, h)) - At(img, w, x, Clamp(y - 1, h)))
    + (At(img, w, Clamp(x + 1, w), Clamp(y + 1, h)) - At(img, w, Clamp(x + 1, w), Clamp(y - 1, h)))

\* Sobel gradient <<gx, gy>> of every pixel
Gradient(img, w, h) ==
    AsSeq([i \in 1..(w * h) |->
              <<SobelX(img, w, h, (i - 1) % w, (i - 1) \div w),
                SobelY(img, w, h, (i - 1) % w, (i - 1) \div w)>>],
          w * h)

\* L1 gradient magnitude of pixel (x, y); 0 outside the image
Magnitude(grad, w, h, x, y) ==
    IF x < 0 \/ x >= w \/ y < 0 \/ y >= h THEN 0
    ELSE Abs(grad[y * w + x + 1][1]) + Abs(grad[y * w + x + 1][2])

\* non-maximum suppression along the quantised gradient direction
IsLocalMax(grad, w, h, x, y) ==
    LET gx == grad[y * w + x + 1][1]
        gy == grad[y * w + x + 1][2]
        m  == Magnitude(grad, w, h, x, y)
        tg22 == Abs(gx) * 13573
        tg67 == tg22 + Abs(gx) * 65536
        ay == Abs(gy) * 32768
        s  == IF (gx < 0) # (gy < 0) THEN -1 ELSE 1
    IN  IF ay < tg22
        THEN m > Magnitude(grad, w, h, x - 1, y) /\ m >= Magnitude(grad, w, h, x + 1, y)
        ELSE IF ay > tg67
        THEN m > Magnitude(grad, w, h, x, y - 1) /\ m >= Magnitude(grad, w, h, x, y + 1)
        ELSE m > Magnitude(grad, w, h, x - s, y - 1) /\ m > Magnitude(grad, w, h, x + s, y + 1)

Pixels(w, h) == (0..(w - 1)) \X (0..(h - 1))

Adjacent(p, q) == p # q /\ Abs(p[1] - q[1]) <= 1 /\ Abs(p[2] - q[2]) <= 1

\* hysteresis: the candidates connected to a strong pixel through
\* candidates, i.e. the least set that holds the strong pixels and every
\* candidate adjacent to one of its members
Hysteresis(strong, cand) ==
    {p \in cand :
        \A S \in SUBSET cand :
            (/\ strong \subseteq S
             /\ \A c \in cand : (\E q \in S : Adjacent(c, q)) => c \in S)
            => p \in S}

\* pixels above the low threshold that survive non-maximum suppression
Candidates(grad, w, h, low) ==
    {p \in Pixels(w, h) :
        /\ Magnitude(grad, w, h, p[1], p[2]) > low
        /\ IsLocalMax(grad, w, h, p[1], p[2])}

\* candidates above the high threshold
Strong(grad, cand, w, h, high) ==
    {p \in cand : Magnitude(grad, w, h, p[1], p[2]) > high}

\* the edge map with 255 at the pixels of E
EdgeMap(E, w, h) ==
    AsSeq([i \in 1..(w * h) |->
              IF <<(i - 1) % w, (i - 1) \div w>> \in E THEN 255 ELSE 0],
          w * h)

EdgesOf(grad, cand, w, h, high) ==
    EdgeMap(Hysteresis(Strong(grad, cand, w, h, high), cand), w, h)

EdgesFrom(grad, w, h, low, high) ==
    EdgesOf(grad, Candidates(grad, w, h, low), w, h, high)

EdgeImage(img, w, h, threshold1, threshold2) ==
    EdgesFrom(Gradient(img, w, h), w, h,
              Min(threshold1, threshold2), Max(threshold1, threshold2))

\* EdgeImage tabulated once for the blurred images and threshold pairs
EdgeTable ==
    [k \in UNION {{<<b[1], b[2], BlurTable[b], t[1], t[2]>> : b \in DOMAIN BlurTable}
                  : t \in ThresholdPairs \cup {<<DefaultThreshold1, DefaultThreshold2>>}}
        |-> EdgeImage(k[3], k[1], k[2], k[4], k[5])] @@ <<>>

\* cv::Canny(src, dst, threshold1, threshold2, apertureSize) with the 3x3
\* Sobel operator: thresholds are ordered by the library (low <= high); the
\* result is 0 or 255 per pixel
Canny(img, w, h, threshold1, threshold2, apertureSize) ==
    IF <<w, h, img, threshold1, threshold2>> \in DOMAIN EdgeTable
    THEN EdgeTable[<<w, h, img, threshold1, threshold2>>]
    ELSE EdgeImage(img, w, h, threshold1, threshold2)

(* --------------------------- EdgeProcessor ----------------------------- *)
\* EdgeProcessor::EdgeProcessor()
NewEdgeProcessor ==
    [cannyThreshold1 |-> DefaultThreshold1,
     cannyThreshold2 |-> DefaultThreshold2,
     cannyApertureSize |-> DefaultApertureSize,
     grayBuffer |-> EmptyMat,
     blurredBuffer |-> EmptyMat,
     edgesBuffer |-> EmptyMat,
     lastWidth |-> 0,
     lastHeight |-> 0]

\* a setCannyThresholds that orders the pair before storing it
setCannyThresholdsOrdered(p, threshold1, threshold2) ==
    [p EXCEPT !.cannyThreshold1 = Min(threshold1, threshold2),
              !.cannyThreshold2 = Max(threshold1, threshold2)]

\* EdgeProcessor::setCannyThresholds
setCannyThresholds(p, threshold1, threshold2) ==
    [p EXCEPT !.cannyThreshold1 = threshold1, !.cannyThreshold2 = threshold2]

\* the resize test of yuv420ToGray and processCanny, as a comparison
\* accepting a buffer whenever one of its two sizes matches
SizeDiffersBoth(mat, width, height) == mat.cols # width /\ mat.rows # height

\* the resize test of yuv420ToGray and processCanny:
\* buffer.cols != width || buffer.rows != height
SizeDiffers(mat, width, height) == mat.cols # width \/ mat.rows # height

\* What a processor routine leaves behind: the processor p, the memory mem,
\* the returned Mat header mat (which shares its buffer's data), the buffers
\* it reallocated, whether memcpy read past the frame (oob), whether a
\* library call threw, and the arguments handed to cv::Canny (used).

\* yuv420ToGray: grayBuffer.create(height, width, CV_8UC1) has run as c
GrayCreated(p, c, width, height) ==
    [p |-> [p EXCEPT !.grayBuffer = c.mat,
                     !.lastWidth = width, !.lastHeight = height],
     mem |-> c.mem,
     realloc |-> IF c.realloc THEN {"grayBuffer"} ELSE {}]

\* yuv420ToGray: the resize of grayBuffer
GrayResize(p, m, width, height, fill) ==
    IF SizeDiffers(p.grayBuffer, width, height)
    THEN GrayCreated(p, MatCreate(p.grayBuffer, m, height, width, fill), width, height)
    ELSE [p |-> p, mem |-> m, realloc |-> {}]

\* yuv420ToGray: the memcpy into grayBuffer.data and the return
GrayCopy(r, yuvData, width, height, junk) ==
    [p |-> r.p,
     mem |-> IF r.p.grayBuffer.data \in DOMAIN r.mem
             THEN Store(r.mem, r.p.grayBuffer.data,
                        Memcpy(r.mem[r.p.grayBuffer.data], yuvData,
                               width * height, junk))
             ELSE r.mem,
     mat |-> r.p.grayBuffer,
     realloc |-> r.realloc,
     oob |-> width * height > Len(yuvData),
     thrown |-> FALSE,
     used |-> <<>>]

\* EdgeProcessor::yuv420ToGray
yuv420ToGray(p, m, yuvData, width, height, fill, junk) ==
    GrayCopy(GrayResize(p, m, width, height, fill), yuvData, width, height, junk)

\* EdgeProcessor::processGrayscale
processGrayscale(p, m, yuvData, width, height, fill, junk) ==
    yuv420ToGray(p, m, yuvData, width, height, fill, junk)

\* every pixel of the Mat that create() returned as c is written
Overwrite(c, pixels) ==
    [mat |-> c.mat, mem |-> Store(c.mem, c.mat.data, pixels)]

\* a library routine that fills its OutputArray only when create() had to
\* allocate it
WriteMatIfCreated(mat, m, height, width, pixels, fill) ==
    LET c == MatCreate(mat, m, height, width, fill)
    IN  [mat |-> c.mat,
         mem |-> IF c.realloc THEN Store(c.mem, c.mat.data, pixels) ELSE c.mem]

\* a library routine writing its OutputArray: dst.create(size) followed by
\* an overwrite of every pixel
WriteMat(mat, m, height, width, pixels, fill) ==
    Overwrite(MatCreate(mat, m, height, width, fill), pixels)

\* processCanny: buffer b (blurredBuffer or edgesBuffer) has been created as c
Created(r, b, c) ==
    [r EXCEPT !.p[b] = c.mat, !.mem = c.mem,
              !.realloc = IF c.realloc THEN @ \cup {b} ELSE @]

\* processCanny: the resize of blurredBuffer and of edgesBuffer
EnsureBuffer(r, b, width, height, fill) ==
    IF SizeDiffers(r.p[b], width, height)
    THEN Created(r, b, MatCreate(r.p[b], r.mem, height, width, fill))
    ELSE r

\* processCanny: a library routine has written buffer b as o
Written(r, b, o) == [r EXCEPT !.p[b] = o.mat, !.mem = o.mem]

\* cv::GaussianBlur(grayMat, blurredBuffer, cv::Size(5, 5), 1.5)
BlurStep(r, fill) ==
    Written(r, "blurredBuffer",
            WriteMat(r.p.blurredBuffer, r.mem, r.mat.rows, r.mat.cols,
                     GaussianBlur(r.mem[r.mat.data], r.mat.cols, r.mat.rows), fill))

\* the arguments cannyThreshold1, cannyThreshold2, cannyApertureSize
CannyArgs(r) ==
    [r EXCEPT !.used = <<r.p.cannyThreshold1, r.p.cannyThreshold2,
                         r.p.cannyApertureSize>>]

\* cv::Canny(blurredBuffer, edgesBuffer, ...), r.used holding its arguments
CannyStep(r, fill) ==
    Written(r, "edgesBuffer",
            WriteMat(r.p.edgesBuffer, r.mem,
                     r.p.blurredBuffer.rows, r.p.blurredBuffer.cols,
                     Canny(r.mem[r.p.blurredBuffer.data],
                           r.p.blurredBuffer.cols, r.p.blurredBuffer.rows,
                           r.used[1], r.used[2], r.used[3]),
                     fill))

\* a library call threw: nothing is returned
Thrown(r) == [r EXCEPT !.thrown = TRUE, !.mat = EmptyMat]

\* return edgesBuffer
ReturnEdges(r) == [r EXCEPT !.mat = r.p.edgesBuffer]

\* processCanny from cv::Canny on
CannyFrom(r, fill, throwAt) ==
    IF throwAt = "canny" THEN Thrown(r) ELSE ReturnEdges(CannyStep(r, fill))

\* processCanny from cv::GaussianBlur on
BlurFrom(r, fill, throwAt) ==
    IF throwAt = "blur" THEN Thrown(r)
    ELSE CannyFrom(CannyArgs(BlurStep(r, fill)), fill, throwAt)

\* EdgeProcessor::processCanny. throwAt names the library call that throws
\* ("blur", "canny") or "none".
processCanny(p, m, yuvData, width, height, fill, junk, throwAt) ==
    BlurFrom(EnsureBuffer(EnsureBuffer(yuv420ToGray(p, m, yuvData, width, height,
                                                    fill, junk),
                                       "blurredBuffer", width, height, fill),
                          "edgesBuffer", width, height, fill),
             fill, throwAt)

\* cv::Mat::isContinuous
IsContinuous(mat) == mat.rows <= 1 \/ mat.step = mat.cols

\* EdgeProcessor::matToByteArray: a new vector holding the Mat's bytes,
\* row-major
matToByteArray(mat, m) ==
    IF IsContinuous(mat)
    THEN AsSeq([k \in 1..(mat.rows * mat.cols) |-> m[mat.data][k]],
               mat.rows * mat.cols)
    ELSE AsSeq([k \in 1..(mat.rows * mat.cols) |->
                   m[mat.data][((k - 1) \div mat.cols) * mat.step
                               + ((k - 1) % mat.cols) + 1]],
               mat.rows * mat.cols)

(* ----------------------------- native-lib ------------------------------ *)
VARIABLES
    g_edgeProcessor,   \* the global pointer: NULL or the index of an instance
    processors,        \* every EdgeProcessor constructed so far, by pointer
    mem,               \* allocated memory: address -> bytes
    call,              \* record of the most recent boundary call (see NoCall)
    calls,             \* number of boundary calls made
    requested,         \* arguments of the last setCannyThresholds, or <<>>
    kept,              \* a result array the caller still holds, with the
                       \* call that returned it and the bytes it had then
    session            \* "open", "closed" (torn down) or "crashed"

vars == <<g_edgeProcessor, processors, mem, call, calls, requested, kept, session>>

NoCall ==
    [op |-> "none", width |-> 0, height |-> 0,
     after |-> "none",         \* the return path of the call before it
     frame |-> <<>>,           \* the frame a conversion routine was given
     path |-> "none",          \* the return path taken
     acquired |-> 0,           \* successful GetByteArrayElements
     released |-> 0,           \* ReleaseByteArrayElements calls
     modes |-> {},             \* release modes used
     ret |-> NULL,             \* the returned jbyteArray
     converted |-> FALSE,      \* a processor conversion routine ran
     realloc |-> {},           \* buffers reallocated by the call
     oob |-> FALSE,            \* memcpy read past the end of the frame
     used |-> <<>>]            \* arguments handed to cv::Canny

\* what the environment decides during one boundary call: whether the
\* input array can be acquired, which library call throws what, whether the
\* output array can be allocated; fill: the contents of a newly allocated
\* block; junk: the bytes past the end of a too short frame; crash: that
\* read faults instead
Throws(op) ==
    IF op = "canny"
    THEN {<<"blur", "catch_cv">>, <<"canny", "catch_other">>, <<"bytes", "catch_std">>}
    ELSE {<<"bytes", "catch_cv">>, <<"bytes", "catch_std">>, <<"bytes", "catch_other">>}

Env(acquire, throw, alloc, crash, fill, junk) ==
    [acquire |-> acquire, throwAt |-> throw[1], kind |-> throw[2],
     alloc |-> alloc, crash |-> crash, fill |-> fill, junk |-> junk]

NoThrow == <<"none", "none">>

\* the buffers op uses that do not have the size width x height
Mismatched(op, p, width, height) ==
    {b \in (IF op = "canny" THEN {"grayBuffer", "blurredBuffer", "edgesBuffer"}
            ELSE {"grayBuffer"}) :
        SizeDiffers(p[b], width, height)}

Envs(op, p, frame, width, height) ==
    IF width <= 0 \/ height <= 0
    THEN {Env(a, NoThrow, TRUE, FALSE, 0, 0) : a \in BOOLEAN}
    ELSE LET fills == IF Mismatched(op, p, width, height) = {} THEN {0} ELSE Bytes
             short == width * height > Len(frame)
             junks == IF short THEN Bytes ELSE {0}
         IN  {Env(FALSE, NoThrow, TRUE, FALSE, 0, 0)}
             \cup {Env(TRUE, NoThrow, a, FALSE, f, j) :
                      a \in BOOLEAN, f \in fills, j \in junks}
             \cup {Env(TRUE, t, TRUE, FALSE, f, j) :
                      t \in Throws(op), f \in fills, j \in junks}
             \cup (IF short THEN {Env(TRUE, NoThrow, TRUE, TRUE, 0, 0)} ELSE {})

\* ensureEdgeProcessorInitialized
ensureEdgeProcessorInitialized(g, ps) ==
    IF g = NULL
    THEN [g |-> Len(ps) + 1, ps |-> Append(ps, NewEdgeProcessor)]
    ELSE [g |-> g, ps |-> ps]

\* a dimension check that lets a zero width through
InvalidDimensionsNegative(width, height) == width < 0 \/ height <= 0

\* the dimension check of both entry points
InvalidDimensions(width, height) == width <= 0 \/ height <= 0

\* env->ReleaseByteArrayElements(inputData, inputBytes, mode)
ReleaseByteArrayElements(c, mode) ==
    [c EXCEPT !.released = @ + 1, !.modes = @ \cup {mode}]

\* catch blocks that return without releasing the input
CatchHandlerNoRelease(c, kind) == [c EXCEPT !.path = kind, !.ret = NULL]

\* the three catch blocks: log, release the input, return nullptr
CatchHandler(c, kind) ==
    [ReleaseByteArrayElements(c, JNI_ABORT) EXCEPT !.path = kind, !.ret = NULL]

\* a boundary that hands out the Mat's own storage instead of a copy
WrapResultShared(mat, m) == [mem |-> m, ret |-> mat.data]

\* matToByteArray, NewByteArray and SetByteArrayRegion: the Mat's bytes are
\* copied into a vector and from there into a new Java array
WrapResult(mat, m) ==
    LET a == FreshAddr(m)
    IN  [mem |-> Store(m, a, matToByteArray(mat, m)), ret |-> a]

\* the part of both entry points that follows the processor call
Finish(g, ps, r, c, frame, env) ==
    LET c2 == [c EXCEPT !.converted = TRUE, !.frame = frame,
                        !.realloc = r.realloc, !.oob = r.oob, !.used = r.used]
        ps2 == [ps EXCEPT ![g] = r.p]
    IN  IF r.oob /\ env.crash
        THEN [g |-> g, ps |-> ps2, mem |-> r.mem, c |-> [c2 EXCEPT !.path = "crash"]]
        ELSE IF r.thrown \/ env.throwAt = "bytes"
        THEN [g |-> g, ps |-> ps2, mem |-> r.mem, c |-> CatchHandler(c2, env.kind)]
        ELSE IF ~env.alloc
        THEN [g |-> g, ps |-> ps2, mem |-> r.mem,
              c |-> [ReleaseByteArrayElements(c2, JNI_ABORT)
                        EXCEPT !.path = "alloc_failed"]]
        ELSE LET w == WrapResult(r.mat, r.mem)
             IN  [g |-> g, ps |-> ps2, mem |-> w.mem,
                  c |-> [ReleaseByteArrayElements(c2, JNI_ABORT)
                            EXCEPT !.path = "ok", !.ret = w.ret]]

\* Java_..._processFrameCanny
processFrameCanny(g0, ps0, m, frame, width, height, env) ==
    LET i  == ensureEdgeProcessorInitialized(g0, ps0)
        c0 == [NoCall EXCEPT !.op = "canny", !.width = width, !.height = height]
        c1 == [c0 EXCEPT !.acquired = 1]
    IN  IF ~env.acquire
        THEN [g |-> i.g, ps |-> i.ps, mem |-> m,
              c |-> [c0 EXCEPT !.path = "acquire_failed"]]
        ELSE IF InvalidDimensions(width, height)
        THEN [g |-> i.g, ps |-> i.ps, mem |-> m,
              c |-> [ReleaseByteArrayElements(c1, JNI_ABORT) EXCEPT !.path = "invalid"]]
        ELSE Finish(i.g, i.ps,
                    processCanny(i.ps[i.g], m, frame, width, height,
                                 env.fill, env.junk, env.throwAt),
                    c1, frame, env)

\* Java_..._processFrameGrayscale
processFrameGrayscale(g0, ps0, m, frame, width, height, env) ==
    LET i  == ensureEdgeProcessorInitialized(g0, ps0)
        c0 == [NoCall EXCEPT !.op = "gray", !.width = width, !.height = height]
        c1 == [c0 EXCEPT !.acquired = 1]
    IN  IF ~env.acquire
        THEN [g |-> i.g, ps |-> i.ps, mem |-> m,
              c |-> [c0 EXCEPT !.path = "acquire_failed"]]
        ELSE IF InvalidDimensions(width, height)
        THEN [g |-> i.g, ps |-> i.ps, mem |-> m,
              c |-> [ReleaseByteArrayElements(c1, JNI_ABORT) EXCEPT !.path = "invalid"]]
        ELSE Finish(i.g, i.ps,
                    processGrayscale(i.ps[i.g], m, frame, width, height,
                                     env.fill, env.junk),
                    c1, frame, env)

\* addresses the processors' buffers occupy
BufferAddrs(ps) ==
    UNION {{ps[i].grayBuffer.data, ps[i].blurredBuffer.data, ps[i].edgesBuffer.data}
           : i \in DOMAIN ps}

\* Java arrays nobody references any more are garbage-collected
Collect(m, ps, refs) ==
    [a \in (DOMAIN m) \cap (BufferAddrs(ps) \cup refs) |-> m[a]]

NoKept == [ref |-> NULL, bytes |-> <<>>, call |-> NoCall]

Init ==
    /\ g_edgeProcessor = NULL
    /\ processors = <<>>
    /\ mem = <<>>
    /\ call = NoCall
    /\ calls = 0
    /\ requested = <<>>
    /\ kept = NoKept
    /\ session = "open"

\* the state in which an earlier boundary call has constructed the
\* processor (ensureEdgeProcessorInitialized) and returned before any
\* conversion; calls counts the boundary calls that follow
InitProcessor ==
    /\ g_edgeProcessor = 1
    /\ processors = <<NewEdgeProcessor>>
    /\ mem = <<>>
    /\ call = NoCall
    /\ calls = 0
    /\ requested = <<>>
    /\ kept = NoKept
    /\ session = "open"

Return(r) ==
    /\ g_edgeProcessor' = r.g
    /\ processors' = r.ps
    /\ mem' = Collect(r.mem, r.ps, {r.c.ret, kept.ref})
    /\ call' = [r.c EXCEPT !.after = call.path]
    /\ calls' = calls + 1
    /\ session' = IF r.c.path = "crash" THEN "crashed" ELSE session
    /\ UNCHANGED <<requested, kept>>

\* the processor a call will find: the live one, or the one it constructs
Current == IF g_edgeProcessor = NULL THEN NewEdgeProcessor
           ELSE processors[g_edgeProcessor]

ProcessFrameCanny ==
    /\ session = "open"
    /\ calls < MaxCalls
    /\ \E frame \in Frames, d \in Dimensions :
         \E env \in Envs("canny", Current, frame, d[1], d[2]) :
            Return(processFrameCanny(g_edgeProcessor, processors, mem,
                                     frame, d[1], d[2], env))

ProcessFrameGrayscale ==
    /\ session = "open"
    /\ calls < MaxCalls
    /\ \E frame \in Frames, d \in Dimensions :
         \E env \in Envs("gray", Current, frame, d[1], d[2]) :
            Return(processFrameGrayscale(g_edgeProcessor, processors, mem,
                                         frame, d[1], d[2], env))

\* a caller of EdgeProcessor::setCannyThresholds on the live instance
SetCannyThresholds ==
    /\ session = "open"
    /\ calls < MaxCalls
    /\ g_edgeProcessor # NULL
    /\ \E t \in ThresholdPairs :
         /\ processors' = [processors EXCEPT ![g_edgeProcessor] =
                              setCannyThresholds(@, t[1], t[2])]
         /\ requested' = t
    /\ UNCHANGED <<g_edgeProcessor, mem, call, calls, kept, session>>

\* the caller keeps the array the last call returned
RetainResult ==
    /\ session = "open"
    /\ calls < MaxCalls
    /\ call.ret # NULL
    /\ kept' = [ref |-> call.ret, bytes |-> mem[call.ret], call |-> call]
    /\ UNCHANGED <<g_edgeProcessor, processors, mem, call, calls, requested, session>>

\* the hosting application ends the processing session. The library has no
\* unload hook and exports no release entry point: no native code runs.
SessionTeardown ==
    /\ session = "open"
    /\ session' = "closed"
    /\ UNCHANGED <<g_edgeProcessor, processors, mem, call, calls, requested, kept>>

Next ==
    \/ ProcessFrameCanny
    \/ ProcessFrameGrayscale
    \/ SetCannyThresholds
    \/ RetainResult
    \/ SessionTeardown

Spec == Init /\ [][Next]_vars

\* the same program observed from the moment its processor exists
SpecProcessor == InitProcessor /\ [][Next]_vars


(* ------------------------------ properties ----------------------------- *)
\* C1: a grayscale call with positive dimensions and a frame of at least
\* width*height bytes, whatever calls came before it, returns exactly
\* width*height bytes, byte i of the result being byte i of the frame; it
\* returns nothing only if the environment refused the output array or a
\* library routine threw.
C1_GrayIsIdentityCopy ==
    (/\ call.op = "gray"
     /\ call.converted
     /\ call.width > 0
     /\ call.height > 0
     /\ call.width * call.height <= Len(call.frame))
    => \/ call.path \in {"alloc_failed", "catch_cv", "catch_std", "catch_other"}
       \/ /\ call.path = "ok"
          /\ call.ret \in DOMAIN mem
          /\ Len(mem[call.ret]) = call.width * call.height
          /\ \A i \in 1..(call.width * call.height) :
                mem[call.ret][i] = call.frame[i]

\* a second grayscale call, with dimensions other than the first call's,
\* has returned a two-pixel frame whose pixels differ
C1_Witness ==
    /\ calls = 2
    /\ call.op = "gray"
    /\ call.path = "ok"
    /\ call.realloc = {"grayBuffer"}
    /\ call.after = "ok"
    /\ call.width * call.height = 2
    /\ Len(call.frame) = 2
    /\ call.frame[1] # call.frame[2]

\* C2: a boundary call with width <= 0 or height <= 0 returns null without
\* crashing and without running a conversion routine: the processor's
\* buffers (headers and contents), lastWidth/lastHeight and all its other
\* fields are after the call what they were before it.
C2_InvalidDimensionsRejected ==
    [][(calls' # calls /\ (call'.width <= 0 \/ call'.height <= 0))
       => /\ call'.ret = NULL
          /\ ~call'.converted
          /\ call'.path \in {"invalid", "acquire_failed"}
          /\ session' = session
          /\ processors'[g_edgeProcessor'] = Current
          /\ \A a \in BufferAddrs(processors') \ {NULL} :
                a \in DOMAIN mem /\ a \in DOMAIN mem' /\ mem'[a] = mem[a]]_vars

\* a call with invalid dimensions was rejected by a processor whose
\* buffers an earlier Canny call had allocated
C2_Witness ==
    /\ calls = 2
    /\ call.path = "invalid"
    /\ call.after = "ok"
    /\ processors[g_edgeProcessor].edgesBuffer.data # NULL
    /\ processors[g_edgeProcessor].lastWidth = 2

\* C3: a boundary call with positive dimensions and a frame shorter than
\* width*height returns null and reads no byte past the end of the frame.
C3_ShortFrameRejected ==
    (/\ call.converted
     /\ call.width > 0
     /\ call.height > 0
     /\ Len(call.frame) < call.width * call.height)
    => call.ret = NULL /\ ~call.oob

C6_CannyIdempotent ==
    (/\ kept.ref # NULL
     /\ kept.call.op = "canny"
     /\ call.op = "canny"
     /\ call.path = "ok"
     /\ call.frame = kept.call.frame
     /\ call.width = kept.call.width
     /\ call.height = kept.call.height
     /\ call.used = kept.call.used)
    => call.ret \in DOMAIN mem /\ mem[call.ret] = kept.bytes

\* C7: setCannyThresholds stores the pair it is given, whatever it is, and
\* changes nothing else of the processor or of memory; a Canny call hands
\* cv::Canny the pair set last, or 50 and 150 if none was ever set, and
\* aperture 3.
C7_ThresholdsStoredAndUsed ==
    [][/\ (calls' = calls /\ requested' # requested)
          => /\ processors'[g_edgeProcessor] =
                   [processors[g_edgeProcessor] EXCEPT
                       !.cannyThreshold1 = requested'[1],
                       !.cannyThreshold2 = requested'[2]]
             /\ g_edgeProcessor' = g_edgeProcessor
             /\ mem' = mem
       /\ (calls' # calls /\ call'.used # <<>>)
          => call'.used = IF requested = <<>> THEN <<50, 150, 3>>
                          ELSE <<requested[1], requested[2], 3>>]_vars

\* a Canny call computed its edge map with a low threshold above the high
\* one, the high one negative
C7_Witness ==
    /\ call.op = "canny"
    /\ call.path = "ok"
    /\ call.used = <<150, -1, 3>>
    /\ requested = <<150, -1>>

\* C8: the global processor is null until the first boundary call, at most
\* one EdgeProcessor is ever constructed and every call uses it, and once
\* the session is torn down the instance is gone: the pointer is null and
\* its buffers are freed.
C8_Lifecycle ==
    /\ (g_edgeProcessor = NULL) <=> (call.op = "none")
    /\ Len(processors) <= 1
    /\ g_edgeProcessor # NULL => g_edgeProcessor = 1 /\ Len(processors) = 1
    /\ session = "closed"
       => /\ g_edgeProcessor = NULL
          /\ \A a \in BufferAddrs(processors) : a \notin DOMAIN mem

\* C9: on every return path of a boundary call that acquired the input
\* bytes, they are released exactly once, in JNI_ABORT mode; a call whose
\* acquisition failed returns null and releases nothing.
C9_AcquireReleaseBalance ==
    (call.op # "none" /\ call.path # "crash")
    => IF call.path = "acquire_failed"
       THEN call.acquired = 0 /\ call.released = 0 /\ call.ret = NULL
       ELSE call.acquired = 1 /\ call.released = 1 /\ call.modes = {2}

\* a Canny call left through the catch (...) handler after cv::Canny threw
C9_Witness ==
    /\ call.op = "canny"
    /\ call.path = "catch_other"
    /\ call.used # <<>>
    /\ call.released = 1

\* C10: an array a boundary call returned is none of the processor's
\* buffers, and keeps the contents it was returned with through every
\* later call.
C10_ResultNotAliased ==
    kept.ref # NULL
    => /\ kept.ref \notin BufferAddrs(processors)
       /\ kept.ref \in DOMAIN mem
       /\ mem[kept.ref] = kept.bytes

\* the caller holds a grayscale result while a later grayscale call of the
\* same size overwrites the gray buffer in place with other pixels
C10_Witness ==
    /\ kept.ref # NULL
    /\ kept.call.op = "gray"
    /\ call.op = "gray"
    /\ call.path = "ok"
    /\ calls = 2
    /\ call.realloc = {}
    /\ mem[call.ret] # kept.bytes

=============================================================================
